---- MODULE Spec2Model ----
(***************************************************************************)
(* Model of reconstruct-order's acquisition reader (mManagerReader), the   *)
(* tiff classifier (parse_tiff_input, sort_pol_channels) and the           *)
(* background traversal (findBackground, loopPos, loopT, loopZBg).         *)
(*                                                                         *)
(* Python strings are sequences of one-character strings, so that the      *)
(* substring tests, the zero-padded formats, fnmatch and sorted() of the   *)
(* code are computed and not assumed.                                      *)
(***************************************************************************)
EXTENDS Integers, Sequences, FiniteSets, Bags, TLC

\* ------------------------------------------------------------ bounds
MaxFrames == 2
MaxSlices == 2
MaxIdx == 1
MaxPix == 2
MaxFiles == 4
MaxBlack == 1

\* ------------------------------------------------------------ strings
\* Python's `sub in s` for two str values.
Contains(s, sub) ==
    \E i \in 0..(Len(s) - Len(sub)) : SubSeq(s, i + 1, i + Len(sub)) = sub

StartsWith(s, p) == Len(s) >= Len(p) /\ SubSeq(s, 1, Len(p)) = p

EndsWith(s, p) == Len(s) >= Len(p) /\ SubSeq(s, Len(s) - Len(p) + 1, Len(s)) = p

\* The characters of the file names, in code point order.
AsciiOrder ==
    <<" ","-",".","0","1","2","3","4","5","6","7","8","9",
      "A","B","C","D","E","F","G","H","I","J","K","L","M","N","O","P","Q","R",
      "S","T","U","V","W","X","Y","Z","_",
      "a","b","c","d","e","f","g","h","i","j","k","l","m","n","o","p","q","r",
      "s","t","u","v","w","x","y","z">>

Ord(c) == CHOOSE i \in 1..Len(AsciiOrder) : AsciiOrder[i] = c

\* Python's `a < b` for two str values (code point order, prefix first).
RECURSIVE StrLess(_, _)
StrLess(a, b) ==
    IF b = <<>> THEN FALSE
    ELSE IF a = <<>> THEN TRUE
    ELSE IF a[1] = b[1] THEN StrLess(Tail(a), Tail(b))
    ELSE Ord(a[1]) < Ord(b[1])

DigitChars == <<"0","1","2","3","4","5","6","7","8","9">>

\* str(n) for n >= 0.
RECURSIVE Digits(_)
Digits(n) ==
    IF n < 10 THEN <<DigitChars[n + 1]>>
    ELSE Digits(n \div 10) \o <<DigitChars[(n % 10) + 1]>>

RECURSIVE Zeros(_)
Zeros(k) == IF k <= 0 THEN <<>> ELSE <<"0">> \o Zeros(k - 1)

\* A Python value handed to str.format: an int or a str.
PyInt(n) == [type |-> "int", val |-> n]
PyStr(s) == [type |-> "str", val |-> s]

\* What a format call yields when a field cannot be formatted.
FormatError == <<"ValueError">>

\* '{:0Wd}'.format(x) and '%0Wd' % x: the decimal digits left-padded with
\* zeros to width w; a str argument raises ValueError (TypeError for %).
FormatD(x, w) ==
    IF x.type = "int" THEN Zeros(w - Len(Digits(x.val))) \o Digits(x.val)
    ELSE FormatError

\* '{}'.format(x): str(x).
FormatS(x) == IF x.type = "int" THEN Digits(x.val) ELSE x.val

\* Concatenation of the pieces of a format string; raises if a field did.
RECURSIVE Join(_)
Join(parts) ==
    IF parts = <<>> THEN <<>>
    ELSE IF parts[1] = FormatError THEN FormatError
    ELSE LET rest == Join(Tail(parts))
         IN IF rest = FormatError THEN FormatError ELSE parts[1] \o rest

\* ------------------------------------------------------------ literals
sPos == <<"P","o","s">>
sDefault == <<"D","e","f","a","u","l","t">>
sPos0 == <<"P","o","s","0">>
sPos1 == <<"P","o","s","1">>
sPos9 == <<"P","o","s","9">>
sData == <<"d","a","t","a">>
v1422 == <<"1",".","4",".","2","2">>
v1422beta == <<"1",".","4",".","2","2","-","b","e","t","a">>
vBeta == <<"2",".","0",".","0","-","b","e","t","a">>
vGamma == <<"2",".","0",".","0","-","g","a","m","m","a">>
v13 == <<"1",".","3",".","0">>
v20 == <<"2",".","0",".","0">>
tok1422 == <<"1",".","4",".","2","2">>
tokBeta == <<"b","e","t","a">>
tokGamma == <<"g","a","m","m","a">>
tokImg == <<"i","m","g","_">>
chA == <<"S","t","a","t","e","0">>
chB == <<"G","F","P">>
chX == <<"B","F">>
chOut == <<"R","e","t">>


\* ------------------------------------------------------------ state
VARIABLES
    \* mManagerReader
    status,           \* "unconstructed", "constructed" or "failed" (__init__ raised)
    raised,           \* the exception the last call raised, or "none"
    lastOp,           \* the last call made on the reader
    arg,              \* the arguments of the last call
    parser,           \* the metadata parser __init__ dispatched to
    mm_version,
    _meta_pos_list, _pos_list,
    n_time, n_z,
    _meta_t_list, _t_list,
    _meta_z_list, _z_list,
    img_name_format,
    channels, input_chans, n_input_chans, output_chans,
    pos_idx, t_idx, z_idx, chan_idx,
    dir_files,        \* os.listdir(img_in_pos_path)
    img_name,         \* what the last get_img_name returned
    written,          \* the file name the last write_img wrote
    \* the cursor of the reader the traversal and parse_tiff_input use
    posIdx, tIdx, zIdx,
    \* parse_tiff_input
    acquFiles,        \* os.listdir(acquDirPath), in the order it lists them
    blackLevel,
    file_i,           \* the file the loop is at (1-based)
    parse_pc,         \* "idle", "loop", "sort" or "done"
    ImgPol,           \* the raw stack the loop assembles
    ImgProc, ImgFluor, ImgBF,
    sorted_pol,       \* what sort_pol_channels(ImgPol) returned
    \* findBackground / loopPos / loopT / loopZBg
    pc,               \* where the traversal is
    pos_it, t_it,     \* the next value of `for posIdx in ...` and `for tIdx in ...`
    nPos, nTime,
    loopZ, flatField, method,
    bg_raised,        \* the exception that ended the traversal, or "none"
    ImgFluorSum, ImgFluorMin, ImgFluorBg,
    accumulated,      \* per band, the images the accumulators have taken in
    z_it, nZ,         \* the next value of `for zIdx in range(0,img.nZ)`, and img.nZ
    img_in_pos_path,  \* the position whose folder the reader was constructed on
    ImgPosPath,       \* the position whose folder loopPos last joined, or -1
    visited,          \* the leaves so far: <<posIdx, tIdx, zIdx>> in the order visited
    reads,            \* per leaf, what parse_tiff_input read: <<folder, tIdx, zIdx>>
    exported,         \* the coordinates exportImg wrote images for
    missing,          \* the leaves at which the folder listed no file of the coordinate
    \* process_position_list / process_z_slice_list / process_timepoint_list
    img_obj_list,     \* per sample, the fields PosList, nZ, nTime, ZList, TimeList
    io_meta,          \* img_obj_list as it was before the call
    config,           \* per sample, the configured list the call was given
    cfg_op,           \* the function called, or "none"
    cfg_raised        \* the exception the call raised, or "none"

readerVars ==
    <<status, raised, lastOp, arg, parser, mm_version, _meta_pos_list, _pos_list,
      n_time, n_z, _meta_t_list, _t_list, _meta_z_list, _z_list, img_name_format,
      channels, input_chans, n_input_chans, output_chans,
      pos_idx, t_idx, z_idx, chan_idx, dir_files, img_name, written>>

cursorVars == <<posIdx, tIdx, zIdx>>

parseVars ==
    <<acquFiles, blackLevel, file_i, parse_pc, ImgPol, ImgProc, ImgFluor, ImgBF,
      sorted_pol>>

bgVars ==
    <<pc, pos_it, t_it, nPos, nTime, loopZ, flatField, method, bg_raised,
      ImgFluorSum, ImgFluorMin, ImgFluorBg, accumulated,
      z_it, nZ, img_in_pos_path, ImgPosPath, visited, reads, exported, missing>>

cfgVars == <<img_obj_list, io_meta, config, cfg_op, cfg_raised>>

vars == <<readerVars, cursorVars, parseVars, bgVars, cfgVars>>

\* The parts of the state a specification does not use stay as they start.
CursorIdle == posIdx = 0 /\ tIdx = 0 /\ zIdx = 0

ParseIdle ==
    /\ acquFiles = <<>> /\ blackLevel = 0 /\ file_i = 1 /\ parse_pc = "idle"
    /\ ImgPol = <<>> /\ ImgProc = <<>> /\ ImgFluor = <<>> /\ ImgBF = <<>>
    /\ sorted_pol = <<>>

BgIdle ==
    /\ pc = "idle" /\ pos_it = 0 /\ t_it = 0 /\ nPos = 0 /\ nTime = 0
    /\ loopZ = "none" /\ flatField = FALSE /\ method = "none" /\ bg_raised = "none"
    /\ ImgFluorSum = <<>> /\ ImgFluorMin = <<>> /\ ImgFluorBg = <<>>
    /\ accumulated = <<>>
    /\ z_it = 0 /\ nZ = 0 /\ img_in_pos_path = 0 /\ ImgPosPath = -1
    /\ visited = <<>> /\ reads = <<>> /\ exported = {} /\ missing = {}

ConfigIdle ==
    /\ img_obj_list = <<>> /\ io_meta = <<>> /\ config = <<>>
    /\ cfg_op = "none" /\ cfg_raised = "none"

NoName == <<>>

\* list(range(0, n))
RangeList(n) == [i \in 1..n |-> i - 1]

Elems(list) == {list[i] : i \in 1..Len(list)}

\* ------------------------------------------------------------ __init__
\* self._pos_list after the sub-directory probe: None, or [sub_dirs[0]] for a
\* single 'Default' child.
ProbePosList(sub_dirs) ==
    IF sub_dirs # <<>> /\ ~Contains(sub_dirs[1], sPos)
       /\ Len(sub_dirs) = 1 /\ sub_dirs[1] = sDefault
    THEN [isNone |-> FALSE, list |-> <<sub_dirs[1]>>]
    ELSE [isNone |-> TRUE, list |-> <<>>]

\* Mutant: the chain ends in the gamma parser instead of raising.
DispatchNoRaise(version) ==
    IF Contains(version, tok1422) THEN "mm1_meta_parser"
    ELSE IF Contains(version, tokBeta) THEN "mm2_beta_meta_parser"
    ELSE "mm2_gamma_meta_parser"

\* The if/elif chain on self.mm_version.
Dispatch(version) ==
    IF Contains(version, tok1422) THEN "mm1_meta_parser"
    ELSE IF Contains(version, tokBeta) THEN "mm2_beta_meta_parser"
    ELSE IF Contains(version, tokGamma) THEN "mm2_gamma_meta_parser"
    ELSE "ValueError"

\* The three parsers of MicromanagerMetadata: each returns the position list
\* of the summary as an ordered sequence, empty when the summary has none.
MetaParser(rule, meta) == meta.PosLabels

\* Mutant: the `is None` guard is dropped.
AlwaysAdopt(probe, meta_pos_list) == meta_pos_list

\* `if self._pos_list is None: self._pos_list = self._meta_pos_list`
KeepOrAdopt(probe, meta_pos_list) ==
    IF probe.isNone THEN meta_pos_list ELSE probe.list

\* _detect_img_name_format; img_names[0] of an empty listing raises.
DetectImgNameFormat(version, img_names) ==
    IF img_names = <<>> THEN "IndexError"
    ELSE IF Contains(version, tok1422) THEN "mm_1_4_22"
    ELSE IF Contains(version, tokBeta) THEN "mm_2_0"
    ELSE IF Contains(version, tokGamma) THEN "mm_2_0"
    ELSE IF Contains(img_names[1], tokImg) THEN "recon_order"
    ELSE "ValueError"

SubDirChoices == {<<>>, <<sDefault>>, <<sPos0, sPos1>>, <<sData>>, <<sDefault, sData>>}
Versions == {v1422, v1422beta, vBeta, vGamma, v13, v20}
PosLabelChoices == {<<>>, <<sPos0>>, <<sPos0, sPos1>>}
InputChanChoices == {<<>>, <<chB>>}
ImgNameChoices == {<<>>, <<tokImg>>}

Summaries ==
    [MicroManagerVersion : Versions, PosLabels : PosLabelChoices,
     ChNames : {<<chA, chB>>}, Frames : 1..MaxFrames, Slices : 1..MaxSlices]

ReaderUnset ==
    /\ parser = "none" /\ mm_version = <<>>
    /\ _meta_pos_list = <<>> /\ _pos_list = <<>>
    /\ n_time = 0 /\ n_z = 0
    /\ _meta_t_list = <<>> /\ _t_list = <<>>
    /\ _meta_z_list = <<>> /\ _z_list = <<>>
    /\ img_name_format = "unset"
    /\ channels = <<>> /\ input_chans = <<>> /\ n_input_chans = 0
    /\ output_chans = <<>>
    /\ pos_idx = 0 /\ t_idx = 0 /\ z_idx = 0 /\ chan_idx = 0
    /\ dir_files = {} /\ img_name = NoName /\ written = NoName

fieldVars ==
    <<parser, mm_version, _meta_pos_list, _pos_list, n_time, n_z,
      _meta_t_list, _t_list, _meta_z_list, _z_list, img_name_format,
      channels, input_chans, n_input_chans, output_chans,
      pos_idx, t_idx, z_idx, chan_idx, dir_files, img_name, written>>

ConstructWith(sub_dirs, meta, img_names, in_chans, out_chans) ==
    LET probe == ProbePosList(sub_dirs)
        rule == Dispatch(meta.MicroManagerVersion)
        fmt == DetectImgNameFormat(meta.MicroManagerVersion, img_names)
    IN  /\ lastOp' = "__init__"
        /\ arg' = [sub_dirs |-> sub_dirs, meta |-> meta, img_names |-> img_names,
                   input_chans |-> in_chans]
        /\ IF rule = "ValueError"
           THEN /\ status' = "failed" /\ raised' = "ValueError"
                /\ UNCHANGED fieldVars
           ELSE IF fmt \in {"IndexError", "ValueError"}
           THEN /\ status' = "failed" /\ raised' = fmt
                /\ UNCHANGED fieldVars
           ELSE /\ status' = "constructed" /\ raised' = "none"
                /\ parser' = rule
                /\ mm_version' = meta.MicroManagerVersion
                /\ _meta_pos_list' = MetaParser(rule, meta)
                /\ _pos_list' = KeepOrAdopt(probe, MetaParser(rule, meta))
                /\ img_name_format' = fmt
                /\ channels' = meta.ChNames
                /\ input_chans' = (IF in_chans # <<>> THEN in_chans ELSE meta.ChNames)
                /\ n_input_chans' = Len(in_chans)
                /\ output_chans' = out_chans
                /\ n_time' = meta.Frames
                /\ n_z' = meta.Slices
                /\ _t_list' = RangeList(meta.Frames)
                /\ _meta_t_list' = RangeList(meta.Frames)
                /\ _z_list' = RangeList(meta.Slices)
                /\ _meta_z_list' = RangeList(meta.Slices)
                /\ pos_idx' = 0 /\ t_idx' = 0 /\ z_idx' = 0 /\ chan_idx' = 0
                /\ dir_files' = Elems(img_names)
                /\ UNCHANGED <<img_name, written>>

Construct ==
    /\ status = "unconstructed"
    /\ UNCHANGED <<cursorVars, parseVars, bgVars, cfgVars>>
    /\ \E sub_dirs \in SubDirChoices, meta \in Summaries,
          img_names \in ImgNameChoices, in_chans \in InputChanChoices :
          ConstructWith(sub_dirs, meta, img_names, in_chans, <<chOut>>)

\* ------------------------------------------------------------ setters
\* Mutant: the assertion is gone (as under python -O).
AcceptsAll(value, meta_list) == TRUE

\* `assert set(value).issubset(meta_list)`
Accepts(value, meta_list) == Elems(value) \subseteq Elems(meta_list)

Reverse(list) == [i \in 1..Len(list) |-> list[Len(list) + 1 - i]]

PosSelections(meta) ==
    IF meta = <<>> THEN {<<>>, <<sPos9>>, <<sDefault>>}
    ELSE {<<>>, <<meta[1]>>, meta, Reverse(meta), <<sPos9>>, <<meta[1], sPos9>>,
          <<sDefault>>}

IdxSelections(n) ==
    {<<>>, <<0>>, <<n - 1>>, <<n - 1, 0>>, <<n>>, <<0, n>>}

set_pos_list(value) ==
    /\ status = "constructed"
    /\ lastOp' = "pos_list" /\ arg' = value
    /\ IF Accepts(value, _meta_pos_list)
       THEN /\ _pos_list' = value /\ raised' = "none"
       ELSE /\ raised' = "AssertionError" /\ UNCHANGED _pos_list
    /\ UNCHANGED <<status, parser, mm_version, _meta_pos_list, n_time, n_z,
                   _meta_t_list, _t_list, _meta_z_list, _z_list, img_name_format,
                   channels, input_chans, n_input_chans, output_chans,
                   pos_idx, t_idx, z_idx, chan_idx, dir_files, img_name, written>>

set_t_list(value) ==
    /\ status = "constructed"
    /\ lastOp' = "t_list" /\ arg' = value
    /\ IF Accepts(value, _meta_t_list)
       THEN /\ _t_list' = value /\ raised' = "none"
       ELSE /\ raised' = "AssertionError" /\ UNCHANGED _t_list
    /\ UNCHANGED <<status, parser, mm_version, _meta_pos_list, _pos_list, n_time, n_z,
                   _meta_t_list, _meta_z_list, _z_list, img_name_format,
                   channels, input_chans, n_input_chans, output_chans,
                   pos_idx, t_idx, z_idx, chan_idx, dir_files, img_name, written>>

set_z_list(value) ==
    /\ status = "constructed"
    /\ lastOp' = "z_list" /\ arg' = value
    /\ IF Accepts(value, _meta_z_list)
       THEN /\ _z_list' = value /\ raised' = "none"
       ELSE /\ raised' = "AssertionError" /\ UNCHANGED _z_list
    /\ UNCHANGED <<status, parser, mm_version, _meta_pos_list, _pos_list, n_time, n_z,
                   _meta_t_list, _t_list, _meta_z_list, img_name_format,
                   channels, input_chans, n_input_chans, output_chans,
                   pos_idx, t_idx, z_idx, chan_idx, dir_files, img_name, written>>

SetPosList ==
    /\ status = "constructed"
    /\ UNCHANGED <<cursorVars, parseVars, bgVars, cfgVars>>
    /\ \E value \in PosSelections(_meta_pos_list) : set_pos_list(value)
SetTList ==
    /\ status = "constructed"
    /\ UNCHANGED <<cursorVars, parseVars, bgVars, cfgVars>>
    /\ \E value \in IdxSelections(n_time) : set_t_list(value)
SetZList ==
    /\ status = "constructed"
    /\ UNCHANGED <<cursorVars, parseVars, bgVars, cfgVars>>
    /\ \E value \in IdxSelections(n_z) : set_z_list(value)

\* ------------------------------------------------------------ reader spec
InitReader ==
    /\ status = "unconstructed" /\ raised = "none" /\ lastOp = "none" /\ arg = <<>>
    /\ ReaderUnset
    /\ CursorIdle /\ ParseIdle /\ BgIdle /\ ConfigIdle

NextReader == Construct \/ SetPosList \/ SetTList \/ SetZList

SpecReader == InitReader /\ [][NextReader]_vars


\* ------------------------------------------------------------ claims on the reader
IsMember(x, list) == \E j \in 1..Len(list) : list[j] = x

AllMembers(value, list) == \A i \in 1..Len(value) : IsMember(value[i], list)

SetterContract(value, meta_list, old, new, exc) ==
    IF AllMembers(value, meta_list)
    THEN exc = "none" /\ new = value
    ELSE exc = "AssertionError" /\ new = old

\* C1: assigning pos_list, t_list or z_list a value within the metadata-derived
\* list succeeds and the list then reads back as exactly that value; a value with
\* an element outside it raises and leaves the selection as it was.
C1_SelectionSetters ==
    [][ /\ lastOp' = "pos_list" =>
             SetterContract(arg', _meta_pos_list, _pos_list, _pos_list', raised')
        /\ lastOp' = "t_list" =>
             SetterContract(arg', _meta_t_list, _t_list, _t_list', raised')
        /\ lastOp' = "z_list" =>
             SetterContract(arg', _meta_z_list, _z_list, _z_list', raised') ]_vars

\* A rejected t_list assignment after an accepted one that narrowed the selection.
C1_Witness ==
    /\ lastOp = "t_list" /\ raised = "AssertionError"
    /\ n_time = 2 /\ _t_list = <<1, 0>> /\ arg = <<0, 2>>

RuleToken(rule) ==
    CASE rule = "mm1_meta_parser" -> tok1422
      [] rule = "mm2_beta_meta_parser" -> tokBeta
      [] rule = "mm2_gamma_meta_parser" -> tokGamma

ParserRules == {"mm1_meta_parser", "mm2_beta_meta_parser", "mm2_gamma_meta_parser"}

Supported(version) == \E rule \in ParserRules : Contains(version, RuleToken(rule))

\* C4: __init__ dispatches on the version string into one of the three parsers,
\* whose token the version contains; a version containing none of the three
\* tokens makes __init__ raise ValueError and leaves no reader behind.
C4_VersionDispatch ==
    /\ status = "constructed" =>
          parser \in ParserRules /\ Contains(mm_version, RuleToken(parser))
    /\ lastOp = "__init__" /\ ~Supported(arg.meta.MicroManagerVersion) =>
          status = "failed" /\ raised = "ValueError" /\ ReaderUnset
    /\ lastOp = "__init__" /\ Supported(arg.meta.MicroManagerVersion)
          /\ arg.img_names # <<>> =>
          status = "constructed" /\ mm_version = arg.meta.MicroManagerVersion

\* __init__ on an acquisition of unsupported version 2.0.0 has raised.
C4_Witness ==
    /\ lastOp = "__init__" /\ arg.meta.MicroManagerVersion = v20
    /\ arg.img_names # <<>> /\ status = "failed" /\ raised = "ValueError"

\* C5: a reader constructed on a root folder whose only child is 'Default' has
\* pos_list = ['Default'], whatever the version and the parsed position list.
C5_DefaultPosList ==
    lastOp = "__init__" /\ status = "constructed" /\ arg.sub_dirs = <<sDefault>> =>
        _pos_list = <<sDefault>>

\* A gamma reader on a 'Default' folder whose metadata lists two positions.
C5_Witness ==
    /\ lastOp = "__init__" /\ status = "constructed" /\ arg.sub_dirs = <<sDefault>>
    /\ parser = "mm2_gamma_meta_parser" /\ _meta_pos_list = <<sPos0, sPos1>>


\* C17: on a constructed reader every selection list is within its metadata-derived
\* list, right after construction and after any assignments, accepted or rejected.
C17_SelectionsWithinMeta ==
    (status = "constructed") =>
        /\ Elems(_pos_list) \subseteq Elems(_meta_pos_list)
        /\ Elems(_t_list) \subseteq Elems(_meta_t_list)
        /\ Elems(_z_list) \subseteq Elems(_meta_z_list)

\* C19: on a constructed reader n_input_chans is the length of input_chans, whether
\* the constructor was given an input channel list or took the metadata's.
C19_InputChanCount ==
    (status = "constructed") => n_input_chans = Len(input_chans)

\* ------------------------------------------------------------ file names
sMetadataTxt == <<"m","e","t","a","d","a","t","a",".","t","x","t">>
pImg6 == <<"i","m","g","_","0","0","0","0","0","0">>
pImgChannel == <<"i","m","g","_","c","h","a","n","n","e","l">>
pPosition == <<"_","p","o","s","i","t","i","o","n">>
pTime == <<"_","t","i","m","e">>
pZ == <<"_","z">>
pTif == <<".","t","i","f">>
pImg == <<"i","m","g","_">>
pT == <<"_","t">>
pP == <<"_","p">>
sUnd == <<"_">>
p000 == <<"0","0","0">>
p001 == <<"0","0","1">>
p002 == <<"0","0","2">>
p010 == <<"0","1","0">>

\* A call's outcome: the value returned, or the exception raised.
Returned(v) == [exc |-> "none", val |-> v]
Raised(e) == [exc |-> e, val |-> NoName]

\* get_chan_name: self.input_chans[self.chan_idx]
GetChanName(chans, idx) ==
    IF idx < Len(chans) THEN Returned(chans[idx + 1]) ELSE Raised("IndexError")

\* list.index(x): the zero-based index of the first x, ValueError if absent.
ListIndex(list, x) ==
    IF \E j \in 1..Len(list) : list[j] = x
    THEN Returned((CHOOSE j \in 1..Len(list) :
                      list[j] = x /\ \A k \in 1..(j - 1) : list[k] # x) - 1)
    ELSE Raised("ValueError")

\* sorted(names): ascending in Python's str order.
RECURSIVE SortedList(_)
SortedList(S) ==
    IF S = {} THEN <<>>
    ELSE LET least == CHOOSE x \in S : \A y \in S \ {x} : StrLess(x, y)
         IN <<least>> \o SortedList(S \ {least})

\* 'img_channel{:03d}_position*_time{:09d}_z{:03d}.tif'.format(chan, t, z), kept as
\* the text before and after its one '*'.
SearchPattern(chan, t, z) ==
    [prefix |-> Join(<<pImgChannel, FormatD(PyInt(chan), 3), pPosition>>),
     suffix |-> Join(<<pTime, FormatD(PyInt(t), 9), pZ, FormatD(PyInt(z), 3), pTif>>)]

\* fnmatch.fnmatch(file, pattern) for a pattern whose only wildcard is one '*'.
FnMatch(file, pat) ==
    /\ Len(file) >= Len(pat.prefix) + Len(pat.suffix)
    /\ StartsWith(file, pat.prefix)
    /\ EndsWith(file, pat.suffix)

\* Mutant: the search loop stops at its first match.
RECURSIVE FirstMatch(_, _, _)
FirstMatch(files, pat, found) ==
    IF files = <<>> THEN found
    ELSE IF FnMatch(files[1], pat) THEN files[1]
    ELSE FirstMatch(Tail(files), pat, found)

\* `for file in sorted(...): if fnmatch(...): img_name = file`: no break, so every
\* later match overwrites img_name.
RECURSIVE SearchLoop(_, _, _)
SearchLoop(files, pat, found) ==
    IF files = <<>> THEN found
    ELSE SearchLoop(Tail(files), pat,
                    IF FnMatch(files[1], pat) THEN files[1] ELSE found)

\* Mutant: the guess ignores the cursor's position.
GuessNamePos0(chan, pos, t, z) ==
    Join(<<pImgChannel, FormatD(PyInt(chan), 3), pPosition, FormatD(PyInt(0), 3),
           pTime, FormatD(PyInt(t), 9), pZ, FormatD(PyInt(z), 3), pTif>>)

\* 'img_channel{:03d}_position{:03d}_time{:09d}_z{:03d}.tif'.format(chan, pos, t, z)
GuessName(chan, pos, t, z) ==
    Join(<<pImgChannel, FormatD(PyInt(chan), 3), pPosition, FormatD(PyInt(pos), 3),
           pTime, FormatD(PyInt(t), 9), pZ, FormatD(PyInt(z), 3), pTif>>)

\* 'img_000000{:03d}_{}_{:03d}.tif'.format(t_idx, chan_name, z_idx)
LegacyName(t, chan_name, z) ==
    Join(<<pImg6, FormatD(PyInt(t), 3), sUnd, FormatS(PyStr(chan_name)), sUnd,
           FormatD(PyInt(z), 3), pTif>>)

\* 'img_{}_t{:03d}_p{:03d}_z{:03d}.tif'.format(t_idx, pos_idx, z_idx, chan_name):
\* the four fields take the arguments in the order they are passed.
ReconOrderName(t, pos, z, chan_name) ==
    Join(<<pImg, FormatS(PyInt(t)), pT, FormatD(PyInt(pos), 3), pP,
           FormatD(PyInt(z), 3), pZ, FormatD(PyStr(chan_name), 3), pTif>>)

\* 'img_'+chan_name+'_t%03d_p%03d_z%03d.tif' % (t_idx, pos_idx, z_idx)
OutputName(chan_name, t, pos, z) ==
    Join(<<pImg, chan_name, pT, FormatD(PyInt(t), 3), pP, FormatD(PyInt(pos), 3),
           pZ, FormatD(PyInt(z), 3), pTif>>)

OfFormat(name) == IF name = FormatError THEN Raised("ValueError") ELSE Returned(name)

\* get_img_name
GetImgNameResult ==
    LET chan == GetChanName(input_chans, chan_idx)
    IN  IF img_name_format = "mm_1_4_22"
        THEN IF chan.exc # "none" THEN chan
             ELSE OfFormat(LegacyName(t_idx, chan.val, z_idx))
        ELSE IF img_name_format = "mm_2_0"
        THEN IF chan.exc # "none" THEN chan
             ELSE LET chan_meta_idx == ListIndex(channels, chan.val)
                  IN IF chan_meta_idx.exc # "none" THEN chan_meta_idx
                     ELSE LET found ==
                                SearchLoop(SortedList(dir_files),
                                           SearchPattern(chan_meta_idx.val, t_idx, z_idx),
                                           NoName)
                          IN IF found = NoName
                             THEN OfFormat(GuessName(chan_meta_idx.val, pos_idx, t_idx, z_idx))
                             ELSE Returned(found)
        ELSE IF img_name_format = "recon_order"
        THEN IF chan.exc # "none" THEN chan
             ELSE OfFormat(ReconOrderName(t_idx, pos_idx, z_idx, chan.val))
        ELSE Raised("ValueError")

nameFrame ==
    <<status, parser, mm_version, _meta_pos_list, _pos_list, n_time, n_z,
      _meta_t_list, _t_list, _meta_z_list, _z_list, img_name_format,
      channels, input_chans, n_input_chans, output_chans,
      pos_idx, t_idx, z_idx, chan_idx, dir_files, arg>>

GetImgName ==
    /\ status = "constructed"
    /\ lastOp' = "get_img_name"
    /\ raised' = GetImgNameResult.exc
    /\ img_name' = GetImgNameResult.val
    /\ UNCHANGED <<nameFrame, written, cursorVars, parseVars, bgVars, cfgVars>>

\* write_img: the name of the file it writes in img_output_path.
WriteImgResult ==
    IF chan_idx < Len(output_chans)
    THEN OfFormat(OutputName(output_chans[chan_idx + 1], t_idx, pos_idx, z_idx))
    ELSE Raised("IndexError")

WriteImg ==
    /\ status = "constructed"
    /\ lastOp' = "write_img"
    /\ raised' = WriteImgResult.exc
    /\ written' = WriteImgResult.val
    /\ UNCHANGED <<nameFrame, img_name, cursorVars, parseVars, bgVars, cfgVars>>

\* The position folder's possible contents.
Mm2File(chan, position, t, z) ==
    Join(<<pImgChannel, FormatD(PyInt(chan), 3), pPosition, position,
           pTime, FormatD(PyInt(t), 9), pZ, FormatD(PyInt(z), 3), pTif>>)

FileUniverse ==
    {Mm2File(0, p000, 0, 0), Mm2File(0, p002, 0, 0), Mm2File(0, p010, 0, 0),
     Mm2File(1, p001, 0, 0), Mm2File(0, p001, 1, 0), sMetadataTxt}

NameFormats == {"mm_1_4_22", "mm_2_0", "recon_order"}

\* A constructed reader with its cursor anywhere, in front of any folder.
InitName ==
    /\ status = "constructed" /\ raised = "none" /\ lastOp = "none" /\ arg = <<>>
    /\ parser = "none" /\ mm_version = <<>>
    /\ _meta_pos_list = <<sPos0, sPos1>> /\ _pos_list = <<sPos0, sPos1>>
    /\ n_time = MaxIdx + 1 /\ n_z = MaxIdx + 1
    /\ _meta_t_list = RangeList(n_time) /\ _t_list = RangeList(n_time)
    /\ _meta_z_list = RangeList(n_z) /\ _z_list = RangeList(n_z)
    /\ img_name_format \in NameFormats
    /\ channels = <<chA, chB>>
    /\ input_chans \in {<<chA, chB>>, <<chB>>, <<chX>>}
    /\ n_input_chans = Len(input_chans)
    /\ output_chans = <<chB, chOut>>
    /\ pos_idx \in 0..MaxIdx /\ t_idx \in 0..MaxIdx /\ z_idx \in 0..MaxIdx
    /\ chan_idx \in 0..1
    /\ dir_files \in SUBSET FileUniverse
    /\ img_name = NoName /\ written = NoName
    /\ CursorIdle /\ ParseIdle /\ BgIdle /\ ConfigIdle

NextName == GetImgName \/ WriteImg

SpecName == InitName /\ [][NextName]_vars


\* ------------------------------------------------------------ claims on file names
\* The canonical output name img_<channel>_t###_p###_z###.tif, for indices below 1000.
CanonicalName(chan_name, t, pos, z) ==
    pImg \o chan_name \o pT \o Zeros(3 - Len(Digits(t))) \o Digits(t)
         \o pP \o Zeros(3 - Len(Digits(pos))) \o Digits(pos)
         \o pZ \o Zeros(3 - Len(Digits(z))) \o Digits(z) \o pTif

SameChannel ==
    /\ chan_idx < Len(input_chans) /\ chan_idx < Len(output_chans)
    /\ input_chans[chan_idx + 1] = output_chans[chan_idx + 1]

\* C3: under 'recon_order', get_img_name returns, without raising, the name
\* under which write_img wrote the image of the same cursor and channel name,
\* img_<channel>_t###_p###_z###.tif.
C3_RoundTrip ==
    /\ lastOp = "write_img" /\ chan_idx < Len(output_chans) =>
          written = CanonicalName(output_chans[chan_idx + 1], t_idx, pos_idx, z_idx)
    /\ lastOp = "get_img_name" /\ img_name_format = "recon_order" /\ SameChannel
          /\ written # NoName =>
          raised = "none" /\ img_name = written

\* The files of the folder that img_channel<chan>_position*_time<t>_z<z>.tif names.
IsSearchHit(file, chan, t, z) ==
    LET head == pImgChannel \o Zeros(3 - Len(Digits(chan))) \o Digits(chan) \o pPosition
        tail == pTime \o Zeros(9 - Len(Digits(t))) \o Digits(t)
                \o pZ \o Zeros(3 - Len(Digits(z))) \o Digits(z) \o pTif
    IN  /\ Len(file) >= Len(head) + Len(tail)
        /\ \A i \in 1..Len(head) : file[i] = head[i]
        /\ \A i \in 1..Len(tail) : file[Len(file) - Len(tail) + i] = tail[i]

ChanResolved ==
    /\ chan_idx < Len(input_chans)
    /\ IsMember(input_chans[chan_idx + 1], channels)

ChanMetaIdx == (CHOOSE j \in 1..Len(channels) : channels[j] = input_chans[chan_idx + 1]) - 1

SearchHits == {f \in dir_files : IsSearchHit(f, ChanMetaIdx, t_idx, z_idx)}

SearchedMm2 ==
    lastOp = "get_img_name" /\ img_name_format = "mm_2_0" /\ ChanResolved

\* C9 as stated: with several matching files, get_img_name returns the first
\* in lexicographic order.
C9_FirstMatch ==
    SearchedMm2 /\ Cardinality(SearchHits) > 1 =>
        /\ img_name \in SearchHits
        /\ \A f \in SearchHits : f = img_name \/ StrLess(img_name, f)

\* C9 amended: with several matching files, get_img_name returns the last in
\* lexicographic order.
C9_LastMatch ==
    SearchedMm2 /\ Cardinality(SearchHits) > 1 =>
        /\ raised = "none"
        /\ img_name \in SearchHits
        /\ \A f \in SearchHits : f = img_name \/ StrLess(f, img_name)

\* Three files match channel 0, time 0, z 0; position010 sorts last.
C9_Witness ==
    /\ SearchedMm2 /\ Cardinality(SearchHits) = 3
    /\ img_name = Mm2File(0, p010, 0, 0)

\* C10: with no matching file get_img_name does not raise and returns
\* img_channel<chan>_position<pos_idx>_time<t>_z<z>.tif; with a match it returns
\* a file of the folder.
C10_Fallback ==
    SearchedMm2 =>
        /\ raised = "none"
        /\ SearchHits = {} =>
              img_name = pImgChannel \o Zeros(3 - Len(Digits(ChanMetaIdx)))
                         \o Digits(ChanMetaIdx) \o pPosition
                         \o Zeros(3 - Len(Digits(pos_idx))) \o Digits(pos_idx)
                         \o pTime \o Zeros(9 - Len(Digits(t_idx))) \o Digits(t_idx)
                         \o pZ \o Zeros(3 - Len(Digits(z_idx))) \o Digits(z_idx) \o pTif
        /\ SearchHits # {} => img_name \in dir_files

\* A guess for position 1 in a folder that holds files of other channels and times.
C10_Witness ==
    /\ SearchedMm2 /\ SearchHits = {} /\ dir_files # {} /\ pos_idx = 1
    /\ raised = "none" /\ img_name # NoName /\ img_name \notin dir_files


\* ------------------------------------------------------------ parse_tiff_input
tState == <<"S","t","a","t","e">>
tstate == <<"s","t","a","t","e">>
tPol == <<"P","o","l">>
tComputed == <<"C","o","m","p","u","t","e","d"," ","I","m","a","g","e">>
tConfocal40 == <<"C","o","n","f","o","c","a","l","4","0">>
tConfocal_40 == <<"C","o","n","f","o","c","a","l","_","4","0">>
tWidefield == <<"W","i","d","e","f","i","e","l","d">>
twidefield == <<"w","i","d","e","f","i","e","l","d">>
tFluor == <<"F","l","u","o","r">>
tDAPI == <<"D","A","P","I">>
t405 == <<"4","0","5">>
t405nm == <<"4","0","5","n","m">>
tGFP == <<"G","F","P">>
t488 == <<"4","8","8">>
t488nm == <<"4","8","8","n","m">>
tTxR == <<"T","x","R">>
tTXR == <<"T","X","R">>
tTX == <<"T","X">>
t568 == <<"5","6","8">>
t561 == <<"5","6","1">>
t560 == <<"5","6","0">>
tCy5 == <<"C","y","5">>
tIFP == <<"I","F","P">>
t640 == <<"6","4","0">>
t637 == <<"6","3","7">>
tBF == <<"B","F">>
gConf405 == <<"Z","y","l","a","_","C","o","n","f","o","c","a","l","4","0","_","4","0","5">>
gWideGFP == <<"Z","y","l","a","_","W","i","d","e","f","i","e","l","d","_","G","F","P">>
gConf568 == <<"Z","y","l","a","_","C","o","n","f","o","c","a","l","4","0","_","5","6","8">>
gWide640 == <<"Z","y","l","a","_","W","i","d","e","f","i","e","l","d","_","6","4","0">>
gConf488 == <<"Z","y","l","a","_","C","o","n","f","o","c","a","l","4","0","_","4","8","8">>
gBareGFP == <<"G","F","P">>
gWide640GFP == <<"Z","y","l","a","_","W","i","d","e","f","i","e","l","d","_","6","4","0","_","G","F","P">>
gState0 == <<"S","t","a","t","e","0">>
gState1 == <<"S","t","a","t","e","1">>
gState4 == <<"S","t","a","t","e","4">>
gPolState1Conf == <<"Z","y","l","a","_","P","o","l","S","t","a","t","e","1","_","C","o","n","f","o","c","a","l","4","0">>
gBF == <<"Z","y","l","a","_","B","F">>
gComputed == <<"R","e","t","a","r","d","a","n","c","e"," ","-"," ","C","o","m","p","u","t","e","d"," ","I","m","a","g","e">>

\* re.I: the letters of the pattern's literal text match in either case.
Lower(c) ==
    CASE c = "I" -> "i" [] c = "M" -> "m" [] c = "G" -> "g"
      [] c = "T" -> "t" [] c = "F" -> "f" [] OTHER -> c

SameFolded(a, b) ==
    Len(a) = Len(b) /\ \A i \in 1..Len(a) : Lower(a[i]) = Lower(b[i])

\* re.match(r'img_000000%03d_(.*)_%03d.tif' % (tIdx, zIdx), fileName, re.M|re.I):
\* the literal head at the start of the name, then the greedy group, which ends at
\* the last place where '_', the z field, any one character and 'tif' follow.
TiffHead(t) == Join(<<pImg6, FormatD(PyInt(t), 3), sUnd>>)

TiffTailAt(name, j, z) ==
    /\ j + 7 <= Len(name)
    /\ SameFolded(SubSeq(name, j, j + 3), Join(<<sUnd, FormatD(PyInt(z), 3)>>))
    /\ SameFolded(SubSeq(name, j + 5, j + 7), <<"t","i","f">>)

TiffTails(name, t, z) ==
    {j \in (Len(TiffHead(t)) + 1)..Len(name) : TiffTailAt(name, j, z)}

ReMatch(name, t, z) ==
    IF /\ Len(name) >= Len(TiffHead(t))
       /\ SameFolded(SubSeq(name, 1, Len(TiffHead(t))), TiffHead(t))
       /\ TiffTails(name, t, z) # {}
    THEN LET last == CHOOSE j \in TiffTails(name, t, z) :
                         \A k \in TiffTails(name, t, z) : k <= j
         IN [matched |-> TRUE, group |-> SubSeq(name, Len(TiffHead(t)) + 1, last - 1)]
    ELSE [matched |-> FALSE, group |-> <<>>]

\* any(substring in group for substring in tokens)
AnyIn(tokens, group) == \E tok \in tokens : Contains(group, tok)

PolTokens == {tState, tstate, tPol}
ProcTokens == {tComputed}
ModalityTokens == {tConfocal40, tConfocal_40, tWidefield, twidefield, tFluor}
Band0Tokens == {tDAPI, t405, t405nm}
Band1Tokens == {tGFP, t488, t488nm}
Band2Tokens == {tTxR, tTXR, tTX, t568, t561, t560}
Band3Tokens == {tCy5, tIFP, t640, t637}
BFTokens == {tBF}

\* Mutant: the band chain runs whether or not a modality token is there.
ClassifyAnyModality(group) ==
    IF AnyIn(PolTokens, group)
    THEN IF Contains(group, <<"0">>) THEN "pol0"
         ELSE IF Contains(group, <<"1">>) THEN "pol1"
         ELSE IF Contains(group, <<"2">>) THEN "pol2"
         ELSE IF Contains(group, <<"3">>) THEN "pol3"
         ELSE IF Contains(group, <<"4">>) THEN "pol4"
         ELSE "none"
    ELSE IF AnyIn(ProcTokens, group) THEN "proc"
    ELSE IF AnyIn(Band0Tokens, group) THEN "fluor0"
    ELSE IF AnyIn(Band1Tokens, group) THEN "fluor1"
    ELSE IF AnyIn(Band2Tokens, group) THEN "fluor2"
    ELSE IF AnyIn(Band3Tokens, group) THEN "fluor3"
    ELSE IF AnyIn(BFTokens, group) THEN "bf"
    ELSE "none"

\* The if/elif chain of one loop iteration: what the file is taken for.
Classify(group) ==
    IF AnyIn(PolTokens, group)
    THEN IF Contains(group, <<"0">>) THEN "pol0"
         ELSE IF Contains(group, <<"1">>) THEN "pol1"
         ELSE IF Contains(group, <<"2">>) THEN "pol2"
         ELSE IF Contains(group, <<"3">>) THEN "pol3"
         ELSE IF Contains(group, <<"4">>) THEN "pol4"
         ELSE "none"
    ELSE IF AnyIn(ProcTokens, group) THEN "proc"
    ELSE IF AnyIn(ModalityTokens, group)
    THEN IF AnyIn(Band0Tokens, group) THEN "fluor0"
         ELSE IF AnyIn(Band1Tokens, group) THEN "fluor1"
         ELSE IF AnyIn(Band2Tokens, group) THEN "fluor2"
         ELSE IF AnyIn(Band3Tokens, group) THEN "fluor3"
         ELSE "none"
    ELSE IF AnyIn(BFTokens, group) THEN "bf"
    ELSE "none"

\* The files a position folder may hold, and what each holds.
TiffFile(t, group, z) ==
    Join(<<pImg6, FormatD(PyInt(t), 3), sUnd, group, sUnd, FormatD(PyInt(z), 3), pTif>>)

TiffFiles ==
    <<TiffFile(0, gConf405, 0), TiffFile(0, gWideGFP, 0), TiffFile(0, gConf568, 0),
      TiffFile(0, gWide640, 0), TiffFile(0, gConf488, 0), TiffFile(0, gBareGFP, 0),
      TiffFile(0, gWide640GFP, 0), TiffFile(0, gState0, 0), TiffFile(0, gState1, 0),
      TiffFile(0, gState4, 0), TiffFile(0, gPolState1Conf, 0), TiffFile(0, gBF, 0),
      TiffFile(0, gComputed, 0), TiffFile(1, gWideGFP, 0), TiffFile(0, gWide640, 1),
      sMetadataTxt>>

\* loadTiff: the pixel value the file holds (every file holds another one).
loadTiff(name) == CHOOSE k \in 1..Len(TiffFiles) : TiffFiles[k] = name

\* What one loop iteration takes the file for at cursor (t, z): the regular
\* expression, then the chain on its group.
KindAt(name, t, z) ==
    LET matchObj == ReMatch(name, t, z)
    IN IF matchObj.matched THEN Classify(matchObj.group) ELSE "none"

\* KindAt, tabulated over the files and the cursors of the model.
KindTable ==
    [name \in Elems(TiffFiles) |-> [t \in 0..1 |-> [z \in 0..1 |-> KindAt(name, t, z)]]]

\* Mutant: the 5-frame stack keeps the raw order behind I_ext and I_0.
sort_pol_channels_raw5(img_pol) ==
    IF Len(img_pol) = 4
    THEN <<img_pol[1], img_pol[4], img_pol[2], img_pol[3]>>
    ELSE IF Len(img_pol) = 5
    THEN <<img_pol[1], img_pol[5], img_pol[2], img_pol[3], img_pol[4]>>
    ELSE img_pol

\* sort_pol_channels: I_ext, I_90, I_135, I_45 are raw slots 0, 1, 2, 3 and I_0 is
\* raw slot 4.
sort_pol_channels(img_pol) ==
    LET I_ext == img_pol[1]
        I_90 == img_pol[2]
        I_135 == img_pol[3]
        I_45 == img_pol[4]
    IN  IF Len(img_pol) = 4 THEN <<I_ext, I_45, I_90, I_135>>
        ELSE IF Len(img_pol) = 5
        THEN LET I_0 == img_pol[5] IN <<I_ext, I_0, I_45, I_90, I_135>>
        ELSE img_pol

parseFrame == <<readerVars, cursorVars, bgVars, cfgVars, acquFiles, blackLevel>>

\* One iteration of `for fileName in acquFiles`.
ParseFile ==
    /\ parse_pc = "loop" /\ file_i <= Len(acquFiles)
    /\ LET fileName == acquFiles[file_i]
           img == loadTiff(fileName) - blackLevel
           kind == KindTable[fileName][tIdx][zIdx]
       IN  /\ ImgPol' =
                 CASE kind = "pol0" -> [ImgPol EXCEPT ![1] = img]
                   [] kind = "pol1" -> [ImgPol EXCEPT ![2] = img]
                   [] kind = "pol2" -> [ImgPol EXCEPT ![3] = img]
                   [] kind = "pol3" -> [ImgPol EXCEPT ![4] = img]
                   [] kind = "pol4" -> Append(ImgPol, img)
                   [] OTHER -> ImgPol
           /\ ImgProc' = IF kind = "proc" THEN Append(ImgProc, img) ELSE ImgProc
           /\ ImgFluor' =
                 CASE kind = "fluor0" -> [ImgFluor EXCEPT ![1] = img]
                   [] kind = "fluor1" -> [ImgFluor EXCEPT ![2] = img]
                   [] kind = "fluor2" -> [ImgFluor EXCEPT ![3] = img]
                   [] kind = "fluor3" -> [ImgFluor EXCEPT ![4] = img]
                   [] OTHER -> ImgFluor
           /\ ImgBF' = IF kind = "bf" THEN Append(ImgBF, img) ELSE ImgBF
    /\ file_i' = file_i + 1
    /\ UNCHANGED <<parse_pc, sorted_pol, parseFrame>>

\* The loop has gone through the listing.
ParseLoopEnd ==
    /\ parse_pc = "loop" /\ file_i > Len(acquFiles)
    /\ parse_pc' = "sort"
    /\ UNCHANGED <<file_i, ImgPol, ImgProc, ImgFluor, ImgBF, sorted_pol, parseFrame>>

\* `ImgPol = sort_pol_channels(ImgPol)` and the return.
SortPol ==
    /\ parse_pc = "sort"
    /\ sorted_pol' = sort_pol_channels(ImgPol)
    /\ parse_pc' = "done"
    /\ UNCHANGED <<file_i, ImgPol, ImgProc, ImgFluor, ImgBF, parseFrame>>

ReaderIdle ==
    /\ status = "unconstructed" /\ raised = "none" /\ lastOp = "none" /\ arg = <<>>
    /\ ReaderUnset

\* Listings: the files of a folder in ascending or descending order.
Listings ==
    UNION {{SortedList(S), Reverse(SortedList(S))} :
              S \in {T \in SUBSET Elems(TiffFiles) : Cardinality(T) <= MaxFiles}}

InitParse ==
    /\ ReaderIdle /\ BgIdle /\ ConfigIdle
    /\ posIdx = 0 /\ tIdx \in 0..1 /\ zIdx \in 0..1
    /\ acquFiles \in Listings
    /\ blackLevel \in 0..MaxBlack
    /\ file_i = 1 /\ parse_pc = "loop"
    /\ ImgPol = <<0, 0, 0, 0>> /\ ImgProc = <<>>
    /\ ImgFluor = <<0, 0, 0, 0>> /\ ImgBF = <<>>
    /\ sorted_pol = <<>>

NextParse == ParseFile \/ ParseLoopEnd \/ SortPol

SpecParse == InitParse /\ [][NextParse]_vars

\* sort_pol_channels on any stack of 4 or 5 images.
PolStacks == UNION {[1..n -> 0..MaxPix] : n \in {4, 5}}

InitSort ==
    /\ ReaderIdle /\ BgIdle /\ ConfigIdle /\ CursorIdle
    /\ acquFiles = <<>> /\ blackLevel = 0 /\ file_i = 1 /\ parse_pc = "sort"
    /\ ImgPol \in PolStacks /\ ImgProc = <<>>
    /\ ImgFluor = <<0, 0, 0, 0>> /\ ImgBF = <<>>
    /\ sorted_pol = <<>>

NextSort == SortPol

SpecSort == InitSort /\ [][NextSort]_vars


\* ------------------------------------------------------------ claims on the classifier
\* Output slot i of the sorted stack takes raw slot perm[i] (zero-based).
Permuted(raw, perm) == [i \in 1..Len(perm) |-> raw[perm[i] + 1]]

\* C2 as stated: a 4-element stack is reordered by [0,3,1,2] and a 5-element
\* stack by [0,4,1,2,3].
C2_SortAsStated ==
    parse_pc = "done" =>
        /\ Len(ImgPol) = 4 => sorted_pol = Permuted(ImgPol, <<0, 3, 1, 2>>)
        /\ Len(ImgPol) = 5 => sorted_pol = Permuted(ImgPol, <<0, 4, 1, 2, 3>>)

\* C2 amended: [a,b,c,d] becomes [a,d,b,c] and [a,b,c,d,e] becomes [a,e,d,b,c]:
\* the 5-element order is [0,4,3,1,2], the 4-element order with raw slot 4
\* put second.
C2_SortPolChannels ==
    parse_pc = "done" =>
        /\ Len(ImgPol) = 4 => sorted_pol = Permuted(ImgPol, <<0, 3, 1, 2>>)
        /\ Len(ImgPol) = 5 => sorted_pol = Permuted(ImgPol, <<0, 4, 3, 1, 2>>)

\* A 5-element stack whose raw slots 1 and 3 differ has been sorted.
C2_Witness ==
    parse_pc = "done" /\ ImgPol = <<0, 1, 2, 0, 1>> /\ sorted_pol = <<0, 1, 0, 1, 2>>

\* The file is named img_000000<t>_<channel part>_<z>.tif for the cursor.
AtCursor(name) ==
    LET head == pImg6 \o Zeros(3 - Len(Digits(tIdx))) \o Digits(tIdx) \o sUnd
        tail == sUnd \o Zeros(3 - Len(Digits(zIdx))) \o Digits(zIdx) \o pTif
    IN  /\ Len(name) >= Len(head) + Len(tail)
        /\ \A i \in 1..Len(head) : name[i] = head[i]
        /\ \A i \in 1..Len(tail) : name[Len(name) - Len(tail) + i] = tail[i]

ChannelPart(name) == SubSeq(name, 15, Len(name) - 8)

HasAny(text, tokens) ==
    \E tok \in tokens : \E i \in 1..Len(text) :
        i + Len(tok) - 1 <= Len(text)
        /\ \A j \in 1..Len(tok) : text[i + j - 1] = tok[j]

StatedToken == <<t405, tGFP, t568, t640>>

BandOf == <<Band0Tokens, Band1Tokens, Band2Tokens, Band3Tokens>>

\* The files at the cursor whose name holds the stated token of band k.
TokenFiles(k) ==
    {i \in 1..Len(acquFiles) :
        AtCursor(acquFiles[i]) /\ HasAny(acquFiles[i], {StatedToken[k]})}

\* C6 as stated: a file at the cursor whose name holds '405', 'GFP', '568' or
\* '640' (and no other band's token, and alone in doing so) has its image in
\* slot 0, 1, 2 or 3; a slot no file has a band token for is zero.
C6_BandTokensAsStated ==
    parse_pc = "done" =>
        \A k \in 1..4 :
            /\ \A i \in TokenFiles(k) :
                  (/\ TokenFiles(k) = {i}
                   /\ \A other \in (1..4) \ {k} :
                         ~HasAny(acquFiles[i], BandOf[other]))
                  => ImgFluor[k] = loadTiff(acquFiles[i]) - blackLevel
            /\ (\A i \in 1..Len(acquFiles) :
                   ~(AtCursor(acquFiles[i]) /\ HasAny(acquFiles[i], BandOf[k])))
               => ImgFluor[k] = 0

\* The files at the cursor that go to fluorescence slot k: a modality token, no
\* polarization or computed-image token, a token of band k and none of a lower band.
SlotFiles(k) ==
    {i \in 1..Len(acquFiles) :
        /\ AtCursor(acquFiles[i])
        /\ HasAny(ChannelPart(acquFiles[i]),
                  {tConfocal40, tConfocal_40, tWidefield, twidefield, tFluor})
        /\ ~HasAny(ChannelPart(acquFiles[i]), {tState, tstate, tPol, tComputed})
        /\ HasAny(ChannelPart(acquFiles[i]), BandOf[k])
        /\ \A lower \in 1..(k - 1) : ~HasAny(ChannelPart(acquFiles[i]), BandOf[lower])}

\* C6 amended: slot k holds the black-level-offset image of the last listed file
\* that goes to it, and zero when no file does; a file with a band token but no
\* modality token goes to no slot.
C6_FluorSlots ==
    parse_pc = "done" =>
        \A k \in 1..4 :
            IF SlotFiles(k) = {} THEN ImgFluor[k] = 0
            ELSE LET last == CHOOSE i \in SlotFiles(k) : \A j \in SlotFiles(k) : j <= i
                 IN ImgFluor[k] = loadTiff(acquFiles[last]) - blackLevel

\* The 405, GFP, 568 and 640 files of cursor (0, 0) fill the four slots.
C6_Witness ==
    /\ parse_pc = "done" /\ tIdx = 0 /\ zIdx = 0 /\ blackLevel = 0
    /\ Len(acquFiles) = 4 /\ ImgFluor = <<1, 2, 3, 4>>


\* The files at the cursor whose channel part names polarization state k.
StateFiles(k) ==
    {i \in 1..Len(acquFiles) :
        /\ AtCursor(acquFiles[i])
        /\ HasAny(ChannelPart(acquFiles[i]),
                  {tState \o <<DigitChars[k + 1]>>, tstate \o <<DigitChars[k + 1]>>})}

\* C16: the file of polarization state k at the cursor (when it is the only one of
\* that state) has its image in raw slot k, whatever else its channel part holds,
\* and the raw stack has 5 slots when a state-4 file is at the cursor and 4 otherwise.
C16_StateSlots ==
    parse_pc = "done" =>
        /\ Len(ImgPol) = (IF StateFiles(4) # {} THEN 5 ELSE 4)
        /\ \A k \in 0..4 : \A i \in StateFiles(k) :
              (StateFiles(k) = {i}) =>
                  /\ Len(ImgPol) > k
                  /\ ImgPol[k + 1] = loadTiff(acquFiles[i]) - blackLevel

\* ------------------------------------------------------------ findBackground
\* `for posIdx in range(0,37)`
LoopPositions == 37

\* The last axis of ImgFluorMin, ImgFluorSum and ImgFluor.
NumBands == 4

\* np.inf, above every pixel value.
Inf == 1000000

Bands == 1..NumBands

\* An image is its pixels in order; the model's images have two.
Pixels == {1, 2}

Const(v) == [p \in Pixels |-> v]

MinOf(S) == CHOOSE x \in S : \A y \in S : x <= y

\* cv2.morphologyEx(img, cv2.MORPH_OPEN, kernel, borderType=cv2.BORDER_REPLICATE) with
\* the 100x100 ellipse: on an image smaller than the kernel the erosion is the
\* least pixel everywhere and the dilation leaves it.
MorphOpen(img) == Const(MinOf({img[p] : p \in Pixels}))

\* ImgMin(Img, ImgMin) of utils.imgProcessing: the elementwise minimum.
ImgMin(img, cur) == [p \in Pixels |-> IF img[p] < cur[p] THEN img[p] ELSE cur[p]]

\* np.any(img)
NpAny(img) == \E p \in Pixels : img[p] # 0

\* Mutant: the running minimum is taken over the opened image.
MinUpdateOpened(img, cur) == ImgMin(MorphOpen(img), cur)

\* `img.ImgFluorMin[:,:,i] = ImgMin(ImgFluor[:,:,i], img.ImgFluorMin[:,:,i])`
MinUpdate(img, cur) == ImgMin(img, cur)

\* `img.ImgFluorSum[:,:,i] += cv2.morphologyEx(ImgFluor[:,:,i], ...)`
SumUpdate(img, cur) == [p \in Pixels |-> cur[p] + MorphOpen(img)[p]]

\* `imgSm.ImgFluorSum/imgSm.nPos`, each pixel kept as an exact fraction.
Divide(stack, n) == [b \in Bands |-> [p \in Pixels |-> [num |-> stack[b][p], den |-> n]]]

\* What ParseTiffInput finds as fluorescence stack in a position folder.
FluorInputs ==
    {<< <<1, 2>>, <<1, 2>>, <<2, 2>>, <<0, 0>> >>,
     << <<2, 1>>, <<0, 0>>, <<1, 1>>, <<0, 0>> >>}

PosCounts == {LoopPositions - 1, LoopPositions, LoopPositions + 1}

bgFrame ==
    <<readerVars, parseVars, cfgVars, nPos, nTime, nZ, loopZ, flatField, method,
      img_in_pos_path>>

\* The leaves at which a file may be missing are bounded by MaxMissing.
MaxMissing == 1

\* Mutant: a loop that stops one index early.
RangeStopShort(n) == n - 1

\* The index at which `for i in range(0, n)` is exhausted.
RangeStop(n) == n

\* Mutant: every index is taken to be in the position list.
PositionListedAny(i, n) == TRUE

\* Whether ['InitialPositionList'][i] exists in a list of n positions.
PositionListed(i, n) == i < n

\* findBackground up to `if flatField:`, and its else branch.
FindBackground ==
    /\ pc = "findBackground"
    /\ IF flatField
       THEN /\ pc' = "loopPos" /\ pos_it' = 0
            /\ UNCHANGED ImgFluorBg
       ELSE /\ pc' = "done"
            /\ ImgFluorBg' = [b \in Bands |-> Const(1)]
            /\ UNCHANGED pos_it
    /\ UNCHANGED <<t_it, z_it, bg_raised, ImgFluorSum, ImgFluorMin, accumulated,
                   ImgPosPath, visited, reads, exported, missing, cursorVars, bgFrame>>

\* The head of `for posIdx in range(0,37)` and the three statements before loopT;
\* when the range is exhausted loopPos returns, to findBackground in a background
\* sweep and to the caller in a sample traversal.
LoopPos ==
    /\ pc = "loopPos"
    /\ IF pos_it = RangeStop(LoopPositions)
       THEN /\ pc' = (IF loopZ = "background" THEN "normalize" ELSE "returned")
            /\ UNCHANGED <<pos_it, t_it, bg_raised, posIdx, ImgPosPath>>
       ELSE IF ~PositionListed(pos_it, nPos)
       THEN \* ['InitialPositionList'][posIdx] beyond the list
            /\ pc' = "raised" /\ bg_raised' = "IndexError"
            /\ UNCHANGED <<pos_it, t_it, posIdx, ImgPosPath>>
       ELSE /\ ImgPosPath' = pos_it
            /\ posIdx' = pos_it /\ pos_it' = pos_it + 1
            /\ t_it' = 0 /\ pc' = "loopT"
            /\ UNCHANGED bg_raised
    /\ UNCHANGED <<z_it, tIdx, zIdx, ImgFluorSum, ImgFluorMin, ImgFluorBg, accumulated,
                   visited, reads, exported, missing, bgFrame>>

\* The head of `for tIdx in range(0,img.nTime)` and the dispatch on img.loopZ.
LoopT ==
    /\ pc = "loopT"
    /\ IF t_it = RangeStop(nTime)
       THEN /\ pc' = "loopPos"
            /\ UNCHANGED <<t_it, z_it, tIdx>>
       ELSE /\ tIdx' = t_it /\ t_it' = t_it + 1 /\ z_it' = 0
            /\ pc' = (IF loopZ = "sample" THEN "loopZSm" ELSE "loopZBg")
    /\ UNCHANGED <<pos_it, bg_raised, posIdx, zIdx, ImgFluorSum, ImgFluorMin, ImgFluorBg,
                   accumulated, ImgPosPath, visited, reads, exported, missing, bgFrame>>

\* What a leaf leaves behind of its call of parse_tiff_input: the folder is
\* img_io.img_in_pos_path, the indices are img_io.tIdx and img_io.zIdx.
LeafRead(z) ==
    /\ visited' = Append(visited, <<posIdx, tIdx, z>>)
    /\ reads' = Append(reads, <<img_in_pos_path, tIdx, z>>)

\* loopZBg: the one iteration zIdx = 0.
LoopZBgWith(fluor) ==
    /\ zIdx' = 0
    /\ LeafRead(0)
    /\ ImgFluorSum' = [i \in Bands |->
          IF NpAny(fluor[i]) THEN SumUpdate(fluor[i], ImgFluorSum[i]) ELSE ImgFluorSum[i]]
    /\ ImgFluorMin' = [i \in Bands |->
          IF NpAny(fluor[i]) THEN MinUpdate(fluor[i], ImgFluorMin[i]) ELSE ImgFluorMin[i]]
    /\ accumulated' = [i \in Bands |->
          IF NpAny(fluor[i]) THEN accumulated[i] (+) SetToBag({fluor[i]})
          ELSE accumulated[i]]

LoopZBg ==
    /\ pc = "loopZBg"
    /\ \E fluor \in FluorInputs : LoopZBgWith(fluor)
    /\ pc' = "loopT"
    /\ UNCHANGED <<pos_it, t_it, z_it, bg_raised, posIdx, tIdx, ImgFluorBg, ImgPosPath,
                   exported, missing, bgFrame>>

\* loopZSm: the head of `for zIdx in range(0,img.nZ)` and one pass of its body.  The
\* body parses the folder (a coordinate none of whose files is listed gives the
\* stacks of zeros and no exception), computes, and ends in writeMetaData and
\* exportImg, which writes under img_io.tIdx, img_io.posIdx, img_io.zIdx.
LoopZSmWith(found) ==
    /\ zIdx' = z_it /\ z_it' = z_it + 1
    /\ LeafRead(z_it)
    /\ missing' = (IF found THEN missing ELSE missing \cup {<<posIdx, tIdx, z_it>>})
    /\ exported' = exported \cup {<<posIdx, tIdx, z_it>>}
    /\ pc' = "loopZSm"

LoopZSm ==
    /\ pc = "loopZSm"
    /\ IF z_it = RangeStop(nZ)
       THEN /\ pc' = "loopT"
            /\ UNCHANGED <<z_it, zIdx, visited, reads, exported, missing>>
       ELSE \E found \in BOOLEAN :
               /\ found \/ Cardinality(missing) < MaxMissing
               /\ LoopZSmWith(found)
    /\ UNCHANGED <<pos_it, t_it, bg_raised, posIdx, tIdx, ImgFluorSum, ImgFluorMin,
                   ImgFluorBg, accumulated, ImgPosPath, bgFrame>>

\* findBackground after loopPos returned: the division and the estimator.
Normalize ==
    /\ pc = "normalize"
    /\ ImgFluorSum' = Divide(ImgFluorSum, nPos)
    /\ ImgFluorBg' =
          IF method = "open" THEN ImgFluorSum'
          ELSE IF method = "empty" THEN ImgFluorMin
          ELSE ImgFluorBg
    /\ pc' = "done"
    /\ UNCHANGED <<pos_it, t_it, z_it, bg_raised, ImgFluorMin, accumulated, ImgPosPath,
                   visited, reads, exported, missing, cursorVars, bgFrame>>

\* Either findBackground after `imgSm.loopZ ='background'` and
\* `ImgFluorBg = np.ones(...)`, or loopPos entered with loopZ = 'sample' on a reader
\* that carries the uniform background.
InitBg ==
    /\ ReaderIdle /\ ParseIdle /\ CursorIdle /\ ConfigIdle
    /\ loopZ \in {"background", "sample"}
    /\ pc = (IF loopZ = "background" THEN "findBackground" ELSE "loopPos")
    /\ pos_it = 0 /\ t_it = 0 /\ z_it = 0
    /\ nPos \in PosCounts /\ nTime \in 1..MaxFrames /\ nZ \in 1..MaxSlices
    /\ flatField \in BOOLEAN
    /\ method \in (IF loopZ = "background" THEN {"open", "empty"} ELSE {"none"})
    /\ (loopZ = "sample") => ~flatField
    /\ bg_raised = "none"
    /\ ImgFluorSum = [b \in Bands |-> Const(0)]
    /\ ImgFluorMin = [b \in Bands |-> Const(Inf)]
    /\ ImgFluorBg = [b \in Bands |-> Const(1)]
    /\ accumulated = [b \in Bands |-> EmptyBag]
    /\ img_in_pos_path = 0 /\ ImgPosPath = -1
    /\ visited = <<>> /\ reads = <<>> /\ exported = {} /\ missing = {}

NextBg == FindBackground \/ LoopPos \/ LoopT \/ LoopZBg \/ LoopZSm \/ Normalize

SpecBg == InitBg /\ [][NextBg]_vars


\* ------------------------------------------------------ background estimators
\* The band images taken into band b so far, with multiplicity.
Taken(b) == BagToSet(accumulated[b])

\* The sum at pixel p of the openings of the images taken into band b.
RECURSIVE OpenedSum(_, _, _)
OpenedSum(b, p, imgs) ==
    IF imgs = {} THEN 0
    ELSE LET img == CHOOSE x \in imgs : TRUE
         IN  CopiesIn(img, accumulated[b]) * MorphOpen(img)[p]
                + OpenedSum(b, p, imgs \ {img})

SweepCompleted == pc = "done" /\ flatField

\* C7: after a completed background sweep the 'open' estimator is, in every band that
\* took in an image, the sum of the opened band images divided by the number of
\* images taken in (compared as fractions: num / den = sum / count).
C7_OpenIsMean ==
    (SweepCompleted /\ method = "open") =>
        \A b \in Bands : \A p \in Pixels :
            BagCardinality(accumulated[b]) > 0 =>
                ImgFluorBg[b][p].num * BagCardinality(accumulated[b])
                    = OpenedSum(b, p, Taken(b)) * ImgFluorBg[b][p].den

\* The elementwise minimum of the images taken into band b, +infinity when none.
ExactMin(b) ==
    [p \in Pixels |->
        IF Taken(b) = {} THEN Inf ELSE MinOf({img[p] : img \in Taken(b)})]

\* C8: at every point of a background sweep the running minimum of each band is the
\* exact elementwise minimum of the band images taken in so far (+infinity before the
\* first), and the 'empty' estimator returned after the sweep is that minimum.
C8_RunningMin ==
    /\ \A b \in Bands : ImgFluorMin[b] = ExactMin(b)
    /\ (SweepCompleted /\ method = "empty") =>
           \A b \in Bands : ImgFluorBg[b] = ExactMin(b)

\* A completed sweep whose 'empty' estimator has a band that equals none of the
\* images taken in, a band that was absent at some positions, and a band never seen.
C8_Witness ==
    /\ SweepCompleted /\ method = "empty"
    /\ Cardinality(Taken(1)) = 2 /\ ImgFluorBg[1] \notin Taken(1)
    /\ BagCardinality(accumulated[2]) \in 1..(BagCardinality(accumulated[1]) - 1)
    /\ ImgFluorBg[2] = <<1, 2>>
    /\ ImgFluorBg[NumBands] = Const(Inf)


\* ------------------------------------------------------------------ traversal
Leaves == {visited[i] : i \in DOMAIN visited}

Last(q) == q[Len(q)]

LexLess(a, b) ==
    \/ a[1] < b[1]
    \/ a[1] = b[1] /\ a[2] < b[2]
    \/ a[1] = b[1] /\ a[2] = b[2] /\ a[3] < b[3]

\* The z indices a (position, time) is to be visited at.
ZRange == IF loopZ = "sample" THEN 0..(nZ - 1) ELSE {0}

InPosition == pc \in {"loopT", "loopZSm", "loopZBg"}

\* The positions whose loopT call has returned, and the times of the position in
\* progress whose loopZ call has returned.
PositionsDone == {p \in 0..(pos_it - 1) : p < posIdx \/ ~InPosition}

TimesDone == IF InPosition THEN {t \in 0..(t_it - 1) : t < tIdx \/ pc = "loopT"} ELSE {}

\* Whether the leaves L hold every leaf of position p.
Processed(L, p) == \A t \in 0..(nTime - 1) : \A z \in ZRange : <<p, t, z>> \in L

\* C13: the leaves are visited in strictly increasing lexicographic order of
\* (position, time, z), so each at most once; every visited position gets every time
\* index 0..nTime-1 and every (position, time) gets every z in 0..nZ-1 in a sample
\* traversal and exactly z = 0 in a background sweep.
C13_LeafOrder ==
    LET L == Leaves
    IN  /\ \A i \in 1..(Len(visited) - 1) : LexLess(visited[i], visited[i + 1])
        /\ \A v \in L : v[2] \in 0..(nTime - 1) /\ v[3] \in ZRange
        /\ \A p \in PositionsDone : Processed(L, p)
        /\ \A t \in TimesDone : \A z \in ZRange : <<posIdx, t, z>> \in L

\* A sample traversal over several times and slices that has returned.
C13_Witness ==
    /\ pc = "returned" /\ nTime > 1 /\ nZ > 1
    /\ Len(visited) = LoopPositions * nTime * nZ

\* C14: in a background sweep the accumulators are updated only at leaves with
\* time 0 and z 0, so no band has taken in more images than positions were visited.
C14_OnePerPosition ==
    (loopZ = "background") =>
        /\ \A v \in Leaves : v[2] = 0 /\ v[3] = 0
        /\ \A b \in Bands :
              BagCardinality(accumulated[b]) <= Cardinality({v[1] : v \in Leaves})

\* C15: at every leaf, the folder and the time and z indices the read uses are those
\* of the coordinate the traversal is at.
C15_ReadsAtCursor == \A i \in DOMAIN visited : reads[i] = visited[i]

LoopPosReturned == pc \in {"returned", "normalize"} \/ (pc = "done" /\ flatField)

LoopPosRaised == pc = "raised"

Least(a, b) == IF a < b THEN a ELSE b

MaxSamples == 2

sAll == <<"a","l","l">>

\* The members of the configured and metadata lists: strings and integers.
StrItem(cs) == [k |-> "str", v |-> cs]

IntItem(n) == [k |-> "int", v |-> n]

\* Python's == on two such values.
PyEq(a, b) == a.k = b.k /\ a.v = b.v

\* `i in list`
InList(item, items) == \E j \in DOMAIN items : PyEq(item, items[j])

\* `i in range(n)`
InRange(item, n) == item.k = "int" /\ item.v \in 0..(n - 1)

\* range(n)
RangeItems(n) == [i \in 1..n |-> IntItem(i - 1)]

\* `i in metadata_pos_list`: membership in a list, substring of a single label.
InPosList(item, meta) ==
    IF meta.isList THEN InList(item, meta.items)
    ELSE item.k = "str" /\ Contains(meta.items[1].v, item.v)

PyList(items) == [isList |-> TRUE, items |-> items]

Outcome(objs, exc) == [objs |-> objs, raised |-> exc]

\* process_position_list from sample idx on.
RECURSIVE process_position_list(_, _, _)
process_position_list(objs, cfg, idx) ==
    IF idx > Len(objs) THEN Outcome(objs, "none")
    ELSE LET config_pos_list == cfg[idx]
             metadata_pos_list == objs[idx].PosList
         IN  IF config_pos_list = <<>> THEN Outcome(objs, "IndexError")
             ELSE IF PyEq(config_pos_list[1], StrItem(sAll))
             THEN process_position_list(
                      [objs EXCEPT ![idx].PosList = PyList(metadata_pos_list.items)],
                      cfg, idx + 1)
             ELSE IF \A j \in DOMAIN config_pos_list :
                         InPosList(config_pos_list[j], metadata_pos_list)
             THEN process_position_list(
                      [objs EXCEPT ![idx].PosList = PyList(config_pos_list)],
                      cfg, idx + 1)
             ELSE Outcome(objs, "AssertionError")

\* process_z_slice_list from sample idx on.
RECURSIVE process_z_slice_list(_, _, _)
process_z_slice_list(objs, cfg, idx) ==
    IF idx > Len(objs) THEN Outcome(objs, "none")
    ELSE LET config_z_list == cfg[idx]
         IN  IF config_z_list = <<>> THEN Outcome(objs, "IndexError")
             ELSE IF PyEq(config_z_list[1], StrItem(sAll))
             THEN process_z_slice_list(
                      [objs EXCEPT ![idx].ZList = RangeItems(objs[idx].nZ)], cfg, idx + 1)
             ELSE IF \A j \in DOMAIN config_z_list : InRange(config_z_list[j], objs[idx].nZ)
             THEN process_z_slice_list(
                      [objs EXCEPT ![idx].ZList = config_z_list], cfg, idx + 1)
             ELSE Outcome(objs, "AssertionError")

\* process_timepoint_list from sample idx on.
RECURSIVE process_timepoint_list(_, _, _)
process_timepoint_list(objs, cfg, idx) ==
    IF idx > Len(objs) THEN Outcome(objs, "none")
    ELSE LET config_t_list == cfg[idx]
         IN  IF config_t_list = <<>> THEN Outcome(objs, "IndexError")
             ELSE IF PyEq(config_t_list[1], StrItem(sAll))
             THEN process_timepoint_list(
                      [objs EXCEPT ![idx].TimeList = RangeItems(objs[idx].nTime)],
                      cfg, idx + 1)
             ELSE IF \A j \in DOMAIN config_t_list :
                         InRange(config_t_list[j], objs[idx].nTime)
             THEN process_timepoint_list(
                      [objs EXCEPT ![idx].TimeList = config_t_list], cfg, idx + 1)
             ELSE Outcome(objs, "AssertionError")

\* config.dataset.positions[idx]
PosConfigs ==
    {<<StrItem(sAll)>>, <<>>, <<StrItem(sPos0)>>, <<StrItem(sPos1), StrItem(sPos0)>>,
     <<StrItem(sPos9)>>, <<StrItem(sPos)>>}

\* config.dataset.z_slices[idx] and config.dataset.timepoints[idx]
IdxConfigs(bound) ==
    {<<StrItem(sAll)>>, <<>>, <<IntItem(0)>>, <<IntItem(1), IntItem(0)>>,
     <<IntItem(bound)>>}

\* io_obj.PosList: a list of labels, or the one label itself.
MetaPosLists ==
    {PyList(<<StrItem(sPos0), StrItem(sPos1)>>), PyList(<<StrItem(sPos0)>>),
     [isList |-> FALSE, items |-> <<StrItem(sPos0)>>]}

IoObjs ==
    [PosList : MetaPosLists, nZ : 1..MaxSlices, nTime : 1..MaxFrames,
     ZList : {<<>>}, TimeList : {<<>>}]

SampleLists(S) == UNION {[1..n -> S] : n \in 1..MaxSamples}

Called(op, cfg, out) ==
    /\ cfg_op' = op /\ config' = cfg
    /\ img_obj_list' = out.objs /\ cfg_raised' = out.raised
    /\ UNCHANGED <<io_meta, readerVars, cursorVars, parseVars, bgVars>>

ProcessPositionList ==
    /\ cfg_op = "none"
    /\ \E cfg \in [1..Len(img_obj_list) -> PosConfigs] :
          Called("positions", cfg, process_position_list(img_obj_list, cfg, 1))

ProcessZSliceList ==
    /\ cfg_op = "none"
    /\ \E cfg \in [1..Len(img_obj_list) -> IdxConfigs(MaxSlices)] :
          Called("z_slices", cfg, process_z_slice_list(img_obj_list, cfg, 1))

ProcessTimepointList ==
    /\ cfg_op = "none"
    /\ \E cfg \in [1..Len(img_obj_list) -> IdxConfigs(MaxFrames)] :
          Called("timepoints", cfg, process_timepoint_list(img_obj_list, cfg, 1))

InitConfig ==
    /\ ReaderIdle /\ ParseIdle /\ CursorIdle /\ BgIdle
    /\ img_obj_list \in SampleLists(IoObjs) /\ io_meta = img_obj_list
    /\ config = <<>> /\ cfg_op = "none" /\ cfg_raised = "none"

NextConfig == ProcessPositionList \/ ProcessZSliceList \/ ProcessTimepointList

SpecConfig == InitConfig /\ [][NextConfig]_vars


\* The metadata-derived range of sample idx for the function called.
FullRange(idx) ==
    IF cfg_op = "positions" THEN io_meta[idx].PosList.items
    ELSE IF cfg_op = "z_slices" THEN RangeItems(io_meta[idx].nZ)
    ELSE RangeItems(io_meta[idx].nTime)

\* The selection the call left on sample idx.
Stored(idx) ==
    IF cfg_op = "positions" THEN img_obj_list[idx].PosList.items
    ELSE IF cfg_op = "z_slices" THEN img_obj_list[idx].ZList
    ELSE img_obj_list[idx].TimeList

IsAll(c) == c = <<StrItem(sAll)>>

Within(c, idx) == \A j \in DOMAIN c : c[j] \in Elems(FullRange(idx))

Samples == DOMAIN io_meta

\* C12: a configured list that is the token 'all' is replaced by the full
\* metadata-derived range, an explicit sublist of that range is accepted and stored
\* verbatim, and a list with a value outside the range fails with the assertion error.
C12_ProcessLists ==
    (cfg_op # "none") =>
        IF \A idx \in Samples : IsAll(config[idx]) \/ Within(config[idx], idx)
        THEN /\ cfg_raised = "none"
             /\ \A idx \in Samples :
                   Stored(idx) = (IF IsAll(config[idx]) THEN FullRange(idx)
                                  ELSE config[idx])
        ELSE cfg_raised = "AssertionError"

====
